---- MODULE Spec2Model ----
(***************************************************************************)
(* A model of APIHandler (src/api_handler.py): one instance of the class,  *)
(* the attributes its methods assign, the requests its session sends, the  *)
(* wall clock time() reads, and the position of each caller inside         *)
(* __init__ / _authenticate / refresh_token / get_data.                    *)
(*                                                                         *)
(* Every attribute of the instance is shared by all callers (the code      *)
(* keeps even its scratch values on self); only the position of a caller   *)
(* in a method is local to it.  A caller's steps follow the statements of  *)
(* the method one after the other; the clock and the server are the        *)
(* environment.                                                            *)
(***************************************************************************)
EXTENDS Integers, Sequences, FiniteSets, TLC

VARIABLES
    instance,          \* "absent" | "constructing" | "ready" | "discarded"
    client_id,         \* self.client_id
    base_url,          \* self.base_url
    username,          \* self.username
    password,          \* self.password
    api_key,           \* self.api_key
    data,              \* self.data, the login payload
    request,           \* self.request, the last login or data response
    refresh_request,   \* self.refresh_request, the last refresh response
    token,             \* self.token
    token_expiry,      \* self.token_expiry
    token_issue_time,  \* self.token_issue_time
    current_time,      \* self.current_time
    headers,           \* self.session.headers["Authorization"], <<>> when not set
    toReturn,          \* self.toReturn
    authResult,        \* self.authResult
    now,               \* what time() returns
    pc,                \* pc[t]: the statement caller t is at
    call               \* call[t]: the record of caller t's current or last call

vars == <<instance, client_id, base_url, username, password, api_key, data,
          request, refresh_request, token, token_expiry, token_issue_time,
          current_time, headers, toReturn, authResult, now, pc, call>>

attrs == <<client_id, base_url, username, password, api_key, data, request,
           refresh_request, token, token_expiry, token_issue_time,
           current_time, headers, toReturn, authResult>>

-----------------------------------------------------------------------------
(* Bounds and input sets *)

\* The clock advances by one of these steps, MaxTicks times at most.
MaxTicks == 2
TickSteps == {30}
Horizon == 30 * MaxTicks

\* The skew of line 79: a token is refreshed from 60 seconds before its expiry.
RefreshSkew == 60

\* Python's None, as a string value and as a number value; an attribute that
\* was never assigned (reading it raises AttributeError).
None == "None"
Unset == "<unset>"
NoneNum == 0 - 1
UnsetNum == 0 - 2

\* JSON true and false, as .json() decodes them.
JsonTrue == "json:true"
JsonFalse == "json:false"

\* The callers of the instance; MainThread is the one of sequential use.
Threads == {"t1", "t2"}
MainThread == "t1"

Tokens == {"T1", "T2"}
ExpiresInValues == {60, 90}
UsernameInputs == {None, "", "alice"}
PasswordInputs == {None, "pw"}
ApiKeyInputs == {None, "K1"}
BaseUrls == {"http://h"}
ClientIds == {"0a1b2c3d4e5f"}
Endpoints == {"widgets"}
ErrorStatuses == {401, 500}

-----------------------------------------------------------------------------
(* Responses of the server *)

\* A body that is not JSON: .json() raises on it.
NotJsonBody ==
    [json |-> FALSE, success |-> None, token |-> None,
     expires_in |-> NoneNum, username |-> None, payload |-> None]

\* The body of a failed auth call: a JSON object with success false or absent.
FailBody(s) ==
    [json |-> TRUE, success |-> s, token |-> None,
     expires_in |-> NoneNum, username |-> None, payload |-> None]

\* The body of a successful login or refresh.
SuccessBody(tok, exp, user) ==
    [json |-> TRUE, success |-> JsonTrue, token |-> tok,
     expires_in |-> exp, username |-> user, payload |-> None]

\* The body of a data read.
DataBody(p) ==
    [json |-> TRUE, success |-> None, token |-> None,
     expires_in |-> NoneNum, username |-> None, payload |-> p]

NoResponse == [status |-> 0, body |-> NotJsonBody]

LoginResponses ==
    {[status |-> 200, body |-> SuccessBody(tok, exp, "alice")] :
        tok \in Tokens, exp \in ExpiresInValues}
    \cup {[status |-> 200, body |-> FailBody(s)] : s \in {JsonFalse, None}}
    \cup {[status |-> 200, body |-> NotJsonBody]}
    \cup {[status |-> st, body |-> FailBody(JsonFalse)] : st \in ErrorStatuses}

RefreshResponses ==
    {[status |-> 200, body |-> SuccessBody(tok, exp, None)] :
        tok \in Tokens, exp \in ExpiresInValues}
    \cup {[status |-> 200, body |-> FailBody(s)] : s \in {JsonFalse, None}}
    \cup {[status |-> 200, body |-> NotJsonBody]}
    \cup {[status |-> st, body |-> FailBody(JsonFalse)] : st \in ErrorStatuses}

DataResponses ==
    {[status |-> 200, body |-> DataBody("rows")],
     [status |-> 200, body |-> NotJsonBody],
     [status |-> 401, body |-> DataBody("denied")]}

-----------------------------------------------------------------------------
(* Pure helpers of the code *)

\* Python truthiness of an argument or of a JSON field.
Truthy(x) == x \notin {None, "", JsonFalse}

\* Line 57 and line 91 with the scheme left out of the header.
BearerBare(tok) == <<tok>>

\* f"Bearer {self.token}"
Bearer(tok) == <<"Bearer ", tok>>

\* f"{self.base_url}/auth/login"
LoginUrl(b) == <<b, "/auth/login">>

\* f"{self.base_url}/auth/refresh"
RefreshUrl(b) == <<b, "/auth/refresh">>

\* Line 105 with the /api prefix left out.
DataUrlNoPrefix(b, e) == <<b, "/", e>>

\* f"{self.base_url}/api/{endpoint}"
DataUrl(b, e) == <<b, "/api/", e>>

\* f"tics-client-{self.client_id}"
ClientTag(c) == <<"tics-client-", c>>

\* The branch __init__ takes on its arguments.
InitBranch(u, p, k) ==
    IF Truthy(u) /\ Truthy(p) THEN "authenticate"
    ELSE IF Truthy(k) THEN "api_key"
    ELSE IF Truthy(u) \/ Truthy(p) THEN "raise_incomplete"
    ELSE "raise_none"

\* Line 79 with the issue time forgotten: the expiry is taken as an instant.
NeedsRefreshNoIssueTime(ct, issue, exp) == ct >= exp - RefreshSkew

\* Line 79 with > written for >=: a token exactly 60 seconds from its expiry
\* is not refreshed.
NeedsRefreshStrict(ct, issue, exp) == ct > issue + exp - RefreshSkew

\* The condition of line 79.
NeedsRefresh(ct, issue, exp) == ct >= issue + exp - RefreshSkew

\* The session's state the token lifecycle is about.
Session ==
    [token |-> token, token_expiry |-> token_expiry,
     token_issue_time |-> token_issue_time, headers |-> headers]

\* response.json(): the decoded body; raises when the body is not JSON.
IsJson(r) == r.body.json
Json(r) == r.body

\* A request as the session sends it: the default headers at that moment.
Req(method, url, body) ==
    [method |-> method, url |-> url, auth |-> headers, body |-> body]

-----------------------------------------------------------------------------
(* Exceptions *)

ValueErrorIncomplete ==
    [type |-> "ValueError",
     msg |-> "Both username and password must be provided together for authentication.",
     arg |-> <<>>]

ValueErrorNone ==
    [type |-> "ValueError",
     msg |-> "No authentication credentials provided. Please provide either username/password or an API key.",
     arg |-> <<>>]

AuthFailedSuccessFalse ==
    [type |-> "Exception",
     msg |-> "Authentication failed: API returned success=False.", arg |-> <<>>]

AuthFailedStatus(st) ==
    [type |-> "Exception", msg |-> "Authentication failed: ", arg |-> <<st>>]

\* Line 98 with the status code left out of the message.
RefreshFailedNoStatus(st) ==
    [type |-> "Exception", msg |-> "Token refresh failed: ", arg |-> <<>>]

RefreshFailedStatus(st) ==
    [type |-> "Exception", msg |-> "Token refresh failed: ", arg |-> <<st>>]

ConnectionError == [type |-> "ConnectionError", msg |-> "", arg |-> <<>>]

TypeError == [type |-> "TypeError", msg |-> "", arg |-> <<>>]

JSONDecodeError == [type |-> "JSONDecodeError", msg |-> "", arg |-> <<>>]

AttributeError(a) == [type |-> "AttributeError", msg |-> a, arg |-> <<>>]

NoException == [type |-> "", msg |-> "", arg |-> <<>>]

-----------------------------------------------------------------------------
(* The record of a call *)

NoCall ==
    [op |-> "", args |-> <<>>, t0 |-> 0, t1 |-> 0, pre |-> [token |-> Unset,
     token_expiry |-> UnsetNum, token_issue_time |-> UnsetNum, headers |-> <<>>],
     sent |-> <<>>, got |-> <<>>, outcome |-> "", exc |-> NoException,
     result |-> <<>>]

\* A call of `op` with arguments `args` that starts now.
Begin(op, args) ==
    [op |-> op, args |-> args, t0 |-> now, t1 |-> now, pre |-> Session, sent |-> <<>>,
     got |-> <<>>, outcome |-> "running", exc |-> NoException, result |-> <<>>]

Returned(c, res) == [c EXCEPT !.outcome = "returned", !.result = res, !.t1 = now]

Raised(c, e) == [c EXCEPT !.outcome = "raised", !.exc = e, !.t1 = now]

Sent(c, r) == [c EXCEPT !.sent = Append(@, r)]

Got(c, r) == [c EXCEPT !.got = Append(@, r)]

-----------------------------------------------------------------------------
Init ==
    /\ instance = "absent"
    /\ client_id = Unset
    /\ base_url = Unset
    /\ username = Unset
    /\ password = Unset
    /\ api_key = Unset
    /\ data = <<>>
    /\ request = NoResponse
    /\ refresh_request = NoResponse
    /\ token = Unset
    /\ token_expiry = UnsetNum
    /\ token_issue_time = UnsetNum
    /\ current_time = UnsetNum
    /\ headers = <<>>
    /\ toReturn = <<>>
    /\ authResult = <<>>
    /\ now = 0
    /\ pc = [t \in Threads |-> "idle"]
    /\ call = [t \in Threads |-> NoCall]

\* Time passes: what time() returns grows, and is taken never to be set back.
Tick ==
    /\ \E d \in TickSteps :
        /\ now + d <= Horizon
        /\ now' = now + d
    /\ UNCHANGED <<instance, attrs, pc, call>>

-----------------------------------------------------------------------------
(* Leaving a method *)

\* Caller t returns `res` from its call.
Return(t, res) ==
    /\ pc' = [pc EXCEPT ![t] = "idle"]
    /\ call' = [call EXCEPT ![t] = Returned(@, res)]

\* Caller t's call raises e; an exception out of __init__ leaves no object.
Raise(t, e) ==
    /\ pc' = [pc EXCEPT ![t] = "idle"]
    /\ call' = [call EXCEPT ![t] = Raised(@, e)]
    /\ instance' = IF call[t].op = "__init__" THEN "discarded" ELSE instance

\* Caller t moves on to statement p.
Goto(t, p) ==
    /\ pc' = [pc EXCEPT ![t] = p]
    /\ UNCHANGED call

-----------------------------------------------------------------------------
(* __init__ and _authenticate, lines 13-70 *)

\* The payload of line 46.
LoginPayload(u, p, c) ==
    [username |-> u, password |-> p, client_id |-> ClientTag(c)]

\* Lines 40-48 up to the moment the login request is on the wire.
AuthenticateSend(t, c0, b, c, u, p) ==
    /\ username' = u
    /\ password' = p
    /\ data' = <<LoginPayload(u, p, c)>>
    /\ call' = [call EXCEPT ![t] =
                  Sent(c0, Req("POST", LoginUrl(b), LoginPayload(u, p, c)))]
    /\ pc' = [pc EXCEPT ![t] = "a48"]

\* APIHandler(base_url=b, username=u, password=p, api_key=k), lines 13-28.
\* Line 15 assigns session.default_headers, an attribute the session never
\* reads: the headers it sends stay as they were, without Authorization.
Construct(t, b, u, p, k, c) ==
    /\ instance = "absent"
    /\ pc[t] = "idle"
    /\ client_id' = c
    /\ base_url' = b
    /\ CASE InitBranch(u, p, k) = "authenticate" ->
              /\ instance' = "constructing"
              /\ AuthenticateSend(t, Begin("__init__", <<u, p, k>>), b, c, u, p)
              /\ UNCHANGED api_key
         [] InitBranch(u, p, k) = "api_key" ->
              /\ instance' = "ready"
              /\ api_key' = k
              /\ pc' = pc
              /\ call' = [call EXCEPT ![t] = Returned(Begin("__init__", <<u, p, k>>), <<>>)]
              /\ UNCHANGED <<username, password, data>>
         [] InitBranch(u, p, k) = "raise_incomplete" ->
              /\ instance' = "discarded"
              /\ pc' = pc
              /\ call' = [call EXCEPT ![t] =
                            Raised(Begin("__init__", <<u, p, k>>), ValueErrorIncomplete)]
              /\ UNCHANGED <<username, password, data, api_key>>
         [] OTHER ->
              /\ instance' = "discarded"
              /\ pc' = pc
              /\ call' = [call EXCEPT ![t] =
                            Raised(Begin("__init__", <<u, p, k>>), ValueErrorNone)]
              /\ UNCHANGED <<username, password, data, api_key>>
    /\ UNCHANGED <<request, refresh_request, token, token_expiry,
                   token_issue_time, current_time, headers, toReturn,
                   authResult, now>>

\* handler._authenticate(u, p) called on an instance that exists.
Authenticate(t, u, p) ==
    /\ instance = "ready"
    /\ pc[t] = "idle"
    /\ AuthenticateSend(t, Begin("_authenticate", <<u, p>>), base_url, client_id, u, p)
    /\ UNCHANGED <<instance, client_id, base_url, api_key, request,
                   refresh_request, token, token_expiry, token_issue_time,
                   current_time, headers, toReturn, authResult, now>>

\* Line 48: session.post returns the login response, or raises.
A48(t) ==
    /\ pc[t] = "a48"
    /\ \/ \E r \in LoginResponses :
            /\ request' = r
            /\ pc' = [pc EXCEPT ![t] = "a51"]
            /\ call' = [call EXCEPT ![t] = Got(@, r)]
            /\ UNCHANGED instance
       \/ /\ Raise(t, ConnectionError)
          /\ UNCHANGED request
    /\ UNCHANGED <<client_id, base_url, username, password, api_key, data,
                   refresh_request, token, token_expiry, token_issue_time,
                   current_time, headers, toReturn, authResult, now>>

\* Lines 51-70 with the success field not looked at: every 200 is a success.
A51IgnoreSuccess(t) ==
    /\ pc[t] = "a51"
    /\ IF request.status = 200
       THEN IF ~IsJson(request) THEN Raise(t, JSONDecodeError)
            ELSE Goto(t, "a54") /\ UNCHANGED instance
       ELSE Raise(t, AuthFailedStatus(request.status))
    /\ UNCHANGED <<attrs, now>>

\* Lines 51-53 and 64-70: the status and the success field decide.
A51(t) ==
    /\ pc[t] = "a51"
    /\ IF request.status = 200
       THEN IF ~IsJson(request) THEN Raise(t, JSONDecodeError)
            ELSE IF Truthy(Json(request).success)
                 THEN Goto(t, "a54") /\ UNCHANGED instance
                 ELSE Raise(t, AuthFailedSuccessFalse)
       ELSE Raise(t, AuthFailedStatus(request.status))
    /\ UNCHANGED <<attrs, now>>

\* Line 54.
A54(t) ==
    /\ pc[t] = "a54"
    /\ IF IsJson(request)
       THEN /\ token' = Json(request).token
            /\ Goto(t, "a55")
            /\ UNCHANGED instance
       ELSE /\ Raise(t, JSONDecodeError)
            /\ UNCHANGED token
    /\ UNCHANGED <<client_id, base_url, username, password, api_key, data,
                   request, refresh_request, token_expiry, token_issue_time,
                   current_time, headers, toReturn, authResult, now>>

\* Line 55 left out: the expiry of the previous token is kept.
A55KeepExpiry(t) ==
    /\ pc[t] = "a55"
    /\ Goto(t, "a56")
    /\ UNCHANGED <<instance, attrs, now>>

\* Line 55.
A55(t) ==
    /\ pc[t] = "a55"
    /\ IF IsJson(request)
       THEN /\ token_expiry' = Json(request).expires_in
            /\ Goto(t, "a56")
            /\ UNCHANGED instance
       ELSE /\ Raise(t, JSONDecodeError)
            /\ UNCHANGED token_expiry
    /\ UNCHANGED <<client_id, base_url, username, password, api_key, data,
                   request, refresh_request, token, token_issue_time,
                   current_time, headers, toReturn, authResult, now>>

\* Line 56.
A56(t) ==
    /\ pc[t] = "a56"
    /\ token_issue_time' = now
    /\ Goto(t, "a57")
    /\ UNCHANGED <<instance, client_id, base_url, username, password, api_key,
                   data, request, refresh_request, token, token_expiry,
                   current_time, headers, toReturn, authResult, now>>

\* Line 57.
A57(t) ==
    /\ pc[t] = "a57"
    /\ headers' = Bearer(token)
    /\ Goto(t, "a58")
    /\ UNCHANGED <<instance, client_id, base_url, username, password, api_key,
                   data, request, refresh_request, token, token_expiry,
                   token_issue_time, current_time, toReturn, authResult, now>>

\* The dict of lines 58-61.
LoginResult(r) ==
    [username |-> Json(r).username, timeToExpire |-> Json(r).expires_in]

\* Lines 58-63, and lines 19-20 when the call came from __init__.
A58(t) ==
    /\ pc[t] = "a58"
    /\ IF IsJson(request)
       THEN /\ toReturn' = <<LoginResult(request)>>
            /\ IF call[t].op = "__init__"
               THEN /\ authResult' = <<LoginResult(request)>>
                    /\ instance' = "ready"
                    /\ Return(t, <<>>)
               ELSE /\ Return(t, <<LoginResult(request)>>)
                    /\ UNCHANGED <<authResult, instance>>
       ELSE /\ Raise(t, JSONDecodeError)
            /\ UNCHANGED <<toReturn, authResult>>
    /\ UNCHANGED <<client_id, base_url, username, password, api_key, data,
                   request, refresh_request, token, token_expiry,
                   token_issue_time, current_time, headers, now>>

-----------------------------------------------------------------------------
(* refresh_token, lines 72-100 *)

\* The payload of line 82.
RefreshPayload(c) == [client_id |-> ClientTag(c)]

\* Line 78: the call starts and reads the clock.
R78(t) ==
    /\ instance = "ready"
    /\ pc[t] = "idle"
    /\ current_time' = now
    /\ pc' = [pc EXCEPT ![t] = "r79"]
    /\ call' = [call EXCEPT ![t] = Begin("refresh_token", <<>>)]
    /\ UNCHANGED <<instance, client_id, base_url, username, password, api_key,
                   data, request, refresh_request, token, token_expiry,
                   token_issue_time, headers, toReturn, authResult, now>>

\* Lines 79-100 on an instance whose issue time and expiry default to 0
\* instead of being absent: the check never raises.
R79Defaulted(t) ==
    /\ pc[t] = "r79"
    /\ IF NeedsRefresh(current_time,
                       IF token_issue_time < 0 THEN 0 ELSE token_issue_time,
                       IF token_expiry < 0 THEN 0 ELSE token_expiry)
       THEN /\ pc' = [pc EXCEPT ![t] = "r82"]
            /\ call' = [call EXCEPT ![t] =
                  Sent(@, Req("POST", RefreshUrl(base_url), RefreshPayload(client_id)))]
       ELSE Return(t, <<>>)
    /\ UNCHANGED <<instance, attrs, now>>

\* Lines 79-82 and 99-100: the expiry check, and the refresh request when the
\* token is within the skew of its expiry.
R79(t) ==
    /\ pc[t] = "r79"
    /\ IF token_issue_time = UnsetNum
       THEN Raise(t, AttributeError("token_issue_time"))
       ELSE IF token_expiry = UnsetNum
       THEN Raise(t, AttributeError("token_expiry"))
       ELSE IF token_expiry = NoneNum
       THEN Raise(t, TypeError)
       ELSE IF NeedsRefresh(current_time, token_issue_time, token_expiry)
       THEN /\ pc' = [pc EXCEPT ![t] = "r82"]
            /\ call' = [call EXCEPT ![t] =
                  Sent(@, Req("POST", RefreshUrl(base_url), RefreshPayload(client_id)))]
            /\ UNCHANGED instance
       ELSE /\ Return(t, <<>>)
            /\ UNCHANGED instance
    /\ UNCHANGED <<attrs, now>>

\* Line 82: session.post returns the refresh response, or raises.
R82(t) ==
    /\ pc[t] = "r82"
    /\ \/ \E r \in RefreshResponses :
            /\ refresh_request' = r
            /\ pc' = [pc EXCEPT ![t] = "r85"]
            /\ call' = [call EXCEPT ![t] = Got(@, r)]
            /\ UNCHANGED instance
       \/ /\ Raise(t, ConnectionError)
          /\ UNCHANGED refresh_request
    /\ UNCHANGED <<client_id, base_url, username, password, api_key, data,
                   request, token, token_expiry, token_issue_time,
                   current_time, headers, toReturn, authResult, now>>

\* Lines 85-98 with the soft failure made to drop the token it cannot renew.
R85DropOnSoftFailure(t) ==
    /\ pc[t] = "r85"
    /\ IF refresh_request.status = 200
       THEN IF ~IsJson(refresh_request)
            THEN Raise(t, JSONDecodeError) /\ UNCHANGED <<token, headers>>
            ELSE IF Truthy(Json(refresh_request).success)
                 THEN Goto(t, "r88") /\ UNCHANGED <<instance, token, headers>>
                 ELSE /\ Return(t, <<>>)
                      /\ token' = None
                      /\ headers' = <<>>
                      /\ UNCHANGED instance
       ELSE /\ Raise(t, RefreshFailedStatus(refresh_request.status))
            /\ UNCHANGED <<token, headers>>
    /\ UNCHANGED <<client_id, base_url, username, password, api_key, data,
                   request, refresh_request, token_expiry, token_issue_time,
                   current_time, toReturn, authResult, now>>

\* Lines 85-98 with a retry: a refresh answered with another status than 200
\* is sent again.
R85Retry(t) ==
    /\ pc[t] = "r85"
    /\ IF refresh_request.status = 200
       THEN IF ~IsJson(refresh_request) THEN Raise(t, JSONDecodeError)
            ELSE IF Truthy(Json(refresh_request).success)
                 THEN Goto(t, "r88") /\ UNCHANGED instance
                 ELSE Return(t, <<>>) /\ UNCHANGED instance
       ELSE IF Len(call[t].sent) < 2
       THEN /\ pc' = [pc EXCEPT ![t] = "r82"]
            /\ call' = [call EXCEPT ![t] =
                  Sent(@, Req("POST", RefreshUrl(base_url), RefreshPayload(client_id)))]
            /\ UNCHANGED instance
       ELSE Raise(t, RefreshFailedStatus(refresh_request.status))
    /\ UNCHANGED <<attrs, now>>

\* Lines 85-87 and 93-98: the status and the success field decide.
R85(t) ==
    /\ pc[t] = "r85"
    /\ IF refresh_request.status = 200
       THEN IF ~IsJson(refresh_request) THEN Raise(t, JSONDecodeError)
            ELSE IF Truthy(Json(refresh_request).success)
                 THEN Goto(t, "r88") /\ UNCHANGED instance
                 ELSE Return(t, <<>>) /\ UNCHANGED instance
       ELSE Raise(t, RefreshFailedStatus(refresh_request.status))
    /\ UNCHANGED <<attrs, now>>

\* Line 88.
R88(t) ==
    /\ pc[t] = "r88"
    /\ IF IsJson(refresh_request)
       THEN /\ token' = Json(refresh_request).token
            /\ Goto(t, "r89")
            /\ UNCHANGED instance
       ELSE /\ Raise(t, JSONDecodeError)
            /\ UNCHANGED token
    /\ UNCHANGED <<client_id, base_url, username, password, api_key, data,
                   request, refresh_request, token_expiry, token_issue_time,
                   current_time, headers, toReturn, authResult, now>>

\* Line 89.
R89(t) ==
    /\ pc[t] = "r89"
    /\ IF IsJson(refresh_request)
       THEN /\ token_expiry' = Json(refresh_request).expires_in
            /\ Goto(t, "r90")
            /\ UNCHANGED instance
       ELSE /\ Raise(t, JSONDecodeError)
            /\ UNCHANGED token_expiry
    /\ UNCHANGED <<client_id, base_url, username, password, api_key, data,
                   request, refresh_request, token, token_issue_time,
                   current_time, headers, toReturn, authResult, now>>

\* Line 90 left out: the issue time of the previous token is kept.
R90KeepIssueTime(t) ==
    /\ pc[t] = "r90"
    /\ Goto(t, "r91")
    /\ UNCHANGED <<instance, attrs, now>>

\* Line 90.
R90(t) ==
    /\ pc[t] = "r90"
    /\ token_issue_time' = now
    /\ Goto(t, "r91")
    /\ UNCHANGED <<instance, client_id, base_url, username, password, api_key,
                   data, request, refresh_request, token, token_expiry,
                   current_time, headers, toReturn, authResult, now>>

\* Lines 91-92 with the header update left out.
R91KeepHeader(t) ==
    /\ pc[t] = "r91"
    /\ Return(t, <<>>)
    /\ UNCHANGED <<instance, attrs, now>>

\* Lines 91-92.
R91(t) ==
    /\ pc[t] = "r91"
    /\ headers' = Bearer(token)
    /\ Return(t, <<>>)
    /\ UNCHANGED <<instance, client_id, base_url, username, password, api_key,
                   data, request, refresh_request, token, token_expiry,
                   token_issue_time, current_time, toReturn, authResult, now>>

-----------------------------------------------------------------------------
(* get_data, lines 102-106 *)

\* get_data made to refresh on its own: a token that is due has its refresh
\* request sent ahead of the GET.
G105Eager(t, e) ==
    /\ instance = "ready"
    /\ pc[t] = "idle"
    /\ pc' = [pc EXCEPT ![t] = "g105"]
    /\ call' = [call EXCEPT ![t] =
          IF token_issue_time >= 0 /\ token_expiry >= 0
                /\ NeedsRefresh(now, token_issue_time, token_expiry)
          THEN Sent(Sent(Begin("get_data", <<e>>),
                         Req("POST", RefreshUrl(base_url), RefreshPayload(client_id))),
                    Req("GET", DataUrl(base_url, e), <<>>))
          ELSE Sent(Begin("get_data", <<e>>), Req("GET", DataUrl(base_url, e), <<>>))]
    /\ UNCHANGED <<instance, attrs, now>>

\* Line 105, up to the moment the request is on the wire.
G105(t, e) ==
    /\ instance = "ready"
    /\ pc[t] = "idle"
    /\ pc' = [pc EXCEPT ![t] = "g105"]
    /\ call' = [call EXCEPT ![t] =
                  Sent(Begin("get_data", <<e>>), Req("GET", DataUrl(base_url, e), <<>>))]
    /\ UNCHANGED <<instance, attrs, now>>

\* Line 105: session.get returns the response, or raises.
G105Recv(t) ==
    /\ pc[t] = "g105"
    /\ \/ \E r \in DataResponses :
            /\ request' = r
            /\ pc' = [pc EXCEPT ![t] = "g106"]
            /\ call' = [call EXCEPT ![t] = Got(@, r)]
            /\ UNCHANGED instance
       \/ /\ Raise(t, ConnectionError)
          /\ UNCHANGED request
    /\ UNCHANGED <<client_id, base_url, username, password, api_key, data,
                   refresh_request, token, token_expiry, token_issue_time,
                   current_time, headers, toReturn, authResult, now>>

\* What line 106 returns.
GetDataResult(r) == Json(r)

\* Line 106.
G106(t) ==
    /\ pc[t] = "g106"
    /\ IF IsJson(request)
       THEN Return(t, <<GetDataResult(request)>>) /\ UNCHANGED instance
       ELSE Raise(t, JSONDecodeError)
    /\ UNCHANGED <<attrs, now>>

-----------------------------------------------------------------------------
(* Sequential use: one caller, one call at a time (spec section 5) *)

Next ==
    \/ Tick
    \/ \E b \in BaseUrls, u \in UsernameInputs, p \in PasswordInputs,
          k \in ApiKeyInputs, c \in ClientIds :
          Construct(MainThread, b, u, p, k, c)
    \/ \E u \in UsernameInputs, p \in PasswordInputs :
          Truthy(u) /\ Truthy(p) /\ Authenticate(MainThread, u, p)
    \/ A48(MainThread)
    \/ A51(MainThread)
    \/ A54(MainThread)
    \/ A55(MainThread)
    \/ A56(MainThread)
    \/ A57(MainThread)
    \/ A58(MainThread)
    \/ R78(MainThread)
    \/ R79(MainThread)
    \/ R82(MainThread)
    \/ R85(MainThread)
    \/ R88(MainThread)
    \/ R89(MainThread)
    \/ R90(MainThread)
    \/ R91(MainThread)
    \/ \E e \in Endpoints : G105(MainThread, e)
    \/ G105Recv(MainThread)
    \/ G106(MainThread)

Spec == Init /\ [][Next]_vars

-----------------------------------------------------------------------------
(* Sequential use by a caller that, once the instance is built, only calls  *)
(* refresh_token                                                            *)

NextRefreshOnly ==
    \/ Tick
    \/ \E b \in BaseUrls, u \in UsernameInputs, p \in PasswordInputs,
          k \in ApiKeyInputs, c \in ClientIds :
          Construct(MainThread, b, u, p, k, c)
    \/ A48(MainThread)
    \/ A51(MainThread)
    \/ A54(MainThread)
    \/ A55(MainThread)
    \/ A56(MainThread)
    \/ A57(MainThread)
    \/ A58(MainThread)
    \/ R78(MainThread)
    \/ R79(MainThread)
    \/ R82(MainThread)
    \/ R85(MainThread)
    \/ R88(MainThread)
    \/ R89(MainThread)
    \/ R90(MainThread)
    \/ R91(MainThread)

SpecRefreshOnly == Init /\ [][NextRefreshOnly]_vars

-----------------------------------------------------------------------------
(* Concurrent use: once the main caller has built the instance from a       *)
(* username and a password, every caller calls refresh_token and get_data   *)
(* on it with no synchronisation; a step is one statement of one caller.    *)
(* Each caller calls refresh_token once and get_data once after it, and the *)
(* server answers every login and every refresh with a success.             *)

\* r is a 200 response whose JSON body says success.
Succeeds(r) == r.status = 200 /\ r.body.json /\ r.body.success = JsonTrue

NextConcurrent ==
    \/ Tick
    \/ \E b \in BaseUrls, u \in UsernameInputs, p \in PasswordInputs,
          c \in ClientIds :
          Construct(MainThread, b, u, p, None, c)
    \/ A48(MainThread) /\ pc'[MainThread] = "a51" /\ Succeeds(request')
    \/ A51(MainThread)
    \/ A54(MainThread)
    \/ A55(MainThread)
    \/ A56(MainThread)
    \/ A57(MainThread)
    \/ A58(MainThread)
    \/ \E t \in Threads :
          \/ R78(t) /\ call[t].op \in {"", "__init__"}
          \/ R79(t)
          \/ R82(t) /\ pc'[t] = "r85" /\ Succeeds(refresh_request')
          \/ R85(t)
          \/ R88(t)
          \/ R89(t)
          \/ R90(t)
          \/ R91(t)
          \/ \E e \in Endpoints : G105(t, e) /\ call[t].op = "refresh_token"
          \/ G105Recv(t) /\ pc'[t] = "g106" /\ request'.body.json
          \/ G106(t)

SpecConcurrent == Init /\ [][NextConcurrent]_vars

-----------------------------------------------------------------------------
(* Properties of sequential use *)

\* The record of the main caller's current or last call.
c == call[MainThread]

\* The main caller is between calls, the last one being a call of `op`.
Finished(op) == pc[MainThread] = "idle" /\ c.op = op /\ c.outcome # "running"

\* The instant from which the token the call found is due for a refresh.
DueAt(s) == s.token_issue_time + s.token_expiry - 60

\* r is a 200 response whose JSON body says success.
IsSuccess(r) == r.status = 200 /\ r.body.json /\ r.body.success = JsonTrue

\* r is a 200 response whose JSON body says success false, or does not say.
IsSoftFailure(r) ==
    r.status = 200 /\ r.body.json /\ r.body.success \in {JsonFalse, None}

\* C1: refresh_token on a client that holds a token sends nothing and leaves
\* token, expiry, issue time and header as they were when it is called before
\* issue time + expiry - 60, and sends exactly one POST /auth/refresh (and
\* nothing else) when it is called at or after that instant.
C1_RefreshOnlyNearExpiry ==
    (c.op = "refresh_token" /\ c.pre.token # Unset) =>
        /\ Len(c.sent) <= 1
        /\ \A i \in 1..Len(c.sent) :
              /\ c.sent[i].method = "POST"
              /\ c.sent[i].url = <<base_url, "/auth/refresh">>
        /\ c.t0 < DueAt(c.pre) =>
              /\ c.sent = <<>>
              /\ Session = c.pre
              /\ pc[MainThread] = "idle" => c.outcome = "returned"
        /\ (c.t0 >= DueAt(c.pre) /\ pc[MainThread] # "r79") => Len(c.sent) = 1

\* A refresh_token call made exactly at issue time + expiry - 60 has finished,
\* having sent its one request.
C1_Witness ==
    /\ Finished("refresh_token")
    /\ c.pre.token # Unset
    /\ c.t0 = DueAt(c.pre)
    /\ Len(c.sent) = 1

\* C2: a construction with username and password whose login is answered 200
\* with success true, token T and expires_in E ends with token T, expiry E, an
\* issue time inside the call, the header "Bearer T", and one POST /auth/login
\* sent.
C2_LoginSuccessInstalls ==
    (Finished("__init__") /\ Len(c.got) = 1 /\ IsSuccess(c.got[1])) =>
        /\ c.outcome = "returned"
        /\ instance = "ready"
        /\ token = c.got[1].body.token
        /\ token_expiry = c.got[1].body.expires_in
        /\ c.t0 <= token_issue_time /\ token_issue_time <= c.t1
        /\ headers = <<"Bearer ", c.got[1].body.token>>
        /\ Len(c.sent) = 1
        /\ c.sent[1].method = "POST"
        /\ c.sent[1].url = <<base_url, "/auth/login">>

\* A construction has finished after a successful login during which the
\* clock moved.
C2_Witness ==
    /\ Finished("__init__")
    /\ Len(c.got) = 1 /\ IsSuccess(c.got[1])
    /\ c.t0 < c.t1
    /\ token \in Tokens

\* C3: a construction whose login is answered non-200, or 200 with success
\* false, raises the authentication failure, installs no token, issue time,
\* expiry or header, and has sent the one login request and nothing more.
C3_LoginFailureInstallsNothing ==
    (Finished("__init__") /\ Len(c.got) = 1
        /\ (c.got[1].status # 200 \/ IsSoftFailure(c.got[1]))) =>
        /\ c.outcome = "raised"
        /\ c.exc.type = "Exception"
        /\ c.exc.msg \in {"Authentication failed: ",
                          "Authentication failed: API returned success=False."}
        /\ c.got[1].status # 200 => c.exc.arg = <<c.got[1].status>>
        /\ instance = "discarded"
        /\ token = Unset
        /\ token_issue_time = UnsetNum
        /\ token_expiry = UnsetNum
        /\ headers = <<>>
        /\ Len(c.sent) = 1

\* A construction has failed on a 200 answer that says success false.
C3_Witness ==
    /\ Finished("__init__")
    /\ Len(c.got) = 1
    /\ c.got[1].status = 200 /\ c.got[1].body.success = JsonFalse
    /\ c.outcome = "raised"

\* C4: after a refresh answered 200 with success true, token T2 and
\* expires_in E2, the token is T2, the expiry E2, the issue time lies inside
\* the call and not before the previous issue time, the header is "Bearer T2",
\* and a previous token other than T2 is in neither place.
C4_RefreshSuccessReplaces ==
    (Finished("refresh_token") /\ Len(c.got) = 1 /\ IsSuccess(c.got[1])) =>
        /\ c.outcome = "returned"
        /\ token = c.got[1].body.token
        /\ token_expiry = c.got[1].body.expires_in
        /\ c.t0 <= token_issue_time /\ token_issue_time <= c.t1
        /\ token_issue_time >= c.pre.token_issue_time
        /\ headers = <<"Bearer ", c.got[1].body.token>>
        /\ c.pre.token # c.got[1].body.token =>
              /\ token # c.pre.token
              /\ headers # <<"Bearer ", c.pre.token>>

\* A refresh has replaced a token by a different one.
C4_Witness ==
    /\ Finished("refresh_token")
    /\ Len(c.got) = 1 /\ IsSuccess(c.got[1])
    /\ c.pre.token \in Tokens
    /\ c.pre.token # token
    /\ c.pre.token_issue_time < token_issue_time

\* C5: a refresh answered 200 with success false returns normally and leaves
\* token, issue time, expiry and header as they were before the call.
C5_SoftFailureKeepsToken ==
    (Finished("refresh_token") /\ Len(c.got) = 1 /\ IsSoftFailure(c.got[1])) =>
        /\ c.outcome = "returned"
        /\ Session = c.pre

\* A refresh of a held token has ended in a soft failure.
C5_Witness ==
    /\ Finished("refresh_token")
    /\ Len(c.got) = 1
    /\ c.got[1].status = 200 /\ c.got[1].body.success = JsonFalse
    /\ token \in Tokens
    /\ headers = <<"Bearer ", token>>

\* C6: a refresh answered with a status other than 200 raises the refresh
\* failure carrying that status, and leaves token, issue time, expiry and
\* header as they were before the call.
C6_RefreshHttpFailureRaises ==
    (Finished("refresh_token") /\ Len(c.got) = 1 /\ c.got[1].status # 200) =>
        /\ c.outcome = "raised"
        /\ c.exc.type = "Exception"
        /\ c.exc.msg = "Token refresh failed: "
        /\ c.exc.arg = <<c.got[1].status>>
        /\ Session = c.pre

\* A refresh of a held token has been answered 500.
C6_Witness ==
    /\ Finished("refresh_token")
    /\ Len(c.got) = 1
    /\ c.got[1].status = 500
    /\ token \in Tokens

\* C7: a construction given username, password and api_key together, or
\* given none of them, raises the configuration error and has sent no request.
C7_BothOrNeitherRaisesBeforeRequest ==
    (c.op = "__init__"
        /\ \/ Truthy(c.args[1]) /\ Truthy(c.args[2]) /\ Truthy(c.args[3])
           \/ ~Truthy(c.args[1]) /\ ~Truthy(c.args[2]) /\ ~Truthy(c.args[3])) =>
        /\ c.sent = <<>>
        /\ c.outcome = "raised"
        /\ c.exc.type = "ValueError"

\* C8: get_data, in any state, sends exactly one request, the GET of
\* {base_url}/api/{endpoint}; it leaves token, issue time, expiry and header as
\* they were, whatever the status of the answer; and what it returns is the
\* decoded body of that answer.
C8_GetDataOnlyReads ==
    c.op = "get_data" =>
        /\ Len(c.sent) = 1
        /\ c.sent[1].method = "GET"
        /\ c.sent[1].url = <<base_url, "/api/", c.args[1]>>
        /\ Session = c.pre
        /\ (Finished("get_data") /\ Len(c.got) = 1 /\ c.got[1].body.json) =>
              /\ c.outcome = "returned"
              /\ c.result = <<c.got[1].body>>

\* A get_data call made with a token past its refresh instant has returned
\* the body of a 401 answer.
C8_Witness ==
    /\ Finished("get_data")
    /\ c.pre.token \in Tokens
    /\ c.t0 >= DueAt(c.pre)
    /\ Len(c.got) = 1
    /\ c.got[1].status = 401
    /\ c.outcome = "returned"

\* C9: on a client constructed with an api_key, refresh_token returns
\* normally, sends nothing and changes nothing.
C9_KeyClientRefreshIsNoOp ==
    (Finished("refresh_token") /\ api_key # Unset) =>
        /\ c.outcome = "returned"
        /\ c.sent = <<>>
        /\ Session = c.pre

\* C10: on a client constructed with an api_key, every get_data request
\* carries the header "Bearer {api_key}".
C10_KeyClientSendsKeyAsBearer ==
    (c.op = "get_data" /\ api_key # Unset) =>
        \A i \in 1..Len(c.sent) : c.sent[i].auth = <<"Bearer ", api_key>>

\* The token, expiry and header in s are those response r installs.
InstalledFrom(s, r) ==
    /\ IsSuccess(r)
    /\ s.token = r.body.token
    /\ s.token_expiry = r.body.expires_in
    /\ s.headers = <<"Bearer ", r.body.token>>

\* C11: between calls, a client that holds a token holds an expiry and an
\* issue time too, its header is "Bearer " followed by that token, and the
\* three are either those the last call found or those of the one successful
\* login or refresh response the last call received, with the issue time read
\* during that call.
C11_TokenTripleConsistent ==
    (pc[MainThread] = "idle" /\ token # Unset) =>
        /\ token \in Tokens
        /\ token_expiry \in ExpiresInValues
        /\ token_issue_time >= 0 /\ token_issue_time <= now
        /\ headers = <<"Bearer ", token>>
        /\ \/ Session = c.pre
           \/ /\ c.op \in {"__init__", "_authenticate", "refresh_token"}
              /\ Len(c.got) = 1
              /\ InstalledFrom(Session, c.got[1])
              /\ c.t0 <= token_issue_time /\ token_issue_time <= c.t1

\* A second login on an instance that held a token has installed a token with
\* another expiry.
C11_Witness ==
    /\ Finished("_authenticate")
    /\ c.pre.token \in Tokens
    /\ token # c.pre.token
    /\ token_expiry # c.pre.token_expiry
    /\ c.outcome = "returned"

\* The main caller's call has one request more on the wire after the step.
SendsRequest == Len(c'.sent) > 0 /\ c'.sent # c.sent

\* C12: no call ever has more than one request, whatever the answers; a
\* request goes out only at the statement of a call that sends it (the start of
\* a login or a data read, the expiry check of a refresh), before any answer
\* of that call, and a call that has failed is over: nothing is sent until the
\* caller starts another call.
C12_NoRetry ==
    /\ [](/\ Len(c.sent) <= 1
          /\ Len(c.got) <= Len(c.sent)
          /\ c.outcome \in {"raised", "returned"} => pc[MainThread] = "idle")
    /\ [][SendsRequest =>
            /\ Len(c'.sent) = 1
            /\ c'.got = <<>>
            /\ c'.outcome = "running"
            /\ \/ pc[MainThread] = "idle" /\ c'.op # c.op
               \/ pc[MainThread] = "idle" /\ c.outcome # "running"
               \/ pc[MainThread] = "r79" /\ c.sent = <<>>]_vars

\* A refresh has been answered 500 and the call is over with its one request.
C12_Witness ==
    /\ Finished("refresh_token")
    /\ c.outcome = "raised"
    /\ Len(c.got) = 1 /\ c.got[1].status = 500
    /\ Len(c.sent) = 1

\* C13: whenever a login fails (a status other than 200, or 200 with success
\* false), from __init__ or on an instance that already holds a token, the
\* client afterwards holds no token and no Authorization header.
C13_FailedLoginHoldsNoToken ==
    (pc[MainThread] = "idle" /\ c.op \in {"__init__", "_authenticate"}
        /\ Len(c.got) = 1
        /\ (c.got[1].status # 200 \/ IsSoftFailure(c.got[1]))) =>
        /\ c.outcome = "raised"
        /\ token \in {Unset, None}
        /\ headers = <<>>

\* The main caller is between calls, the last one a login or a refresh that
\* was answered with a success, and the clock still shows the issue time.
JustInstalled ==
    /\ pc[MainThread] = "idle"
    /\ c.op \in {"__init__", "_authenticate", "refresh_token"}
    /\ Len(c.got) = 1 /\ IsSuccess(c.got[1])
    /\ c.outcome = "returned"
    /\ now = token_issue_time

\* C14 as claimed: right after a successful login or refresh the client is
\* valid, now < issue time + expiry - 60, and a refresh_token call made with
\* no time elapsed sends nothing, whatever expires_in the answer carried.
C14_ValidRightAfterSuccess ==
    /\ JustInstalled => now < DueAt(Session)
    /\ (c.op = "refresh_token" /\ c.pre.token # Unset
            /\ c.t0 = c.pre.token_issue_time) => c.sent = <<>>

\* C14 as amended: the same for an expires_in above 60; with an expires_in of
\* 60 or less the client is due at once, and a refresh_token call made with no
\* time elapsed sends its refresh request.
C14_ValidRightAfterSuccessAbove60 ==
    /\ JustInstalled => (now < DueAt(Session) <=> token_expiry > 60)
    /\ (c.op = "refresh_token" /\ c.pre.token # Unset
            /\ c.t0 = c.pre.token_issue_time) =>
          /\ c.pre.token_expiry > 60 => c.sent = <<>>
          /\ (c.pre.token_expiry <= 60 /\ pc[MainThread] # "r79") =>
                Len(c.sent) = 1

\* A refresh_token call made at the issue time of a token with expires_in 90
\* has finished without sending anything.
C14_Witness ==
    /\ Finished("refresh_token")
    /\ c.pre.token \in Tokens
    /\ c.t0 = c.pre.token_issue_time
    /\ c.pre.token_expiry = 90
    /\ c.sent = <<>>

\* C15: a POST /auth/refresh is only ever a request of a refresh_token call:
\* construction, login and get_data send none, and the clock moving sends
\* nothing and changes nothing; get_data sends the header as it stands, so a
\* token past issue time + expiry - 60 stays in use as long as refresh_token
\* is not called.
C15_RefreshIsLazy ==
    /\ [](\A i \in 1..Len(c.sent) :
            c.sent[i].url = <<base_url, "/auth/refresh">> => c.op = "refresh_token")
    /\ [](c.op = "get_data" =>
            /\ Len(c.sent) = 1
            /\ c.sent[1].auth = c.pre.headers
            /\ Session = c.pre)
    /\ [][now' # now => call' = call /\ Session' = Session /\ pc' = pc]_vars

\* A get_data call made a tick or more after the token fell due, with no
\* refresh_token call in between, has sent that token's header.
C15_Witness ==
    /\ Finished("get_data")
    /\ c.pre.token \in Tokens
    /\ c.t0 > DueAt(c.pre)
    /\ c.sent[1].auth = <<"Bearer ", token>>
    /\ current_time = UnsetNum

\* The main caller's call has sent a POST /auth/refresh.
SentRefresh ==
    \E i \in 1..Len(c.sent) : c.sent[i].url = <<base_url, "/auth/refresh">>

FailedRefresh ==
    /\ Finished("refresh_token")
    /\ Len(c.got) = 1
    /\ (IsSoftFailure(c.got[1]) \/ c.got[1].status # 200)

\* The main caller is between calls, the last one a refresh that installed the
\* token of its answer, and that token is not due.
ValidAgain ==
    /\ Finished("refresh_token")
    /\ Len(c.got) = 1
    /\ InstalledFrom(Session, c.got[1])
    /\ now < DueAt(Session)

\* The step is the arrival of a refresh answer that is not a 200 with success
\* true and an expires_in above 60: another answer, or none.
BadRefreshAnswer ==
    /\ pc[MainThread] = "r82"
    /\ pc'[MainThread] # "r82"
    /\ ~(/\ pc'[MainThread] = "r85"
         /\ IsSuccess(refresh_request')
         /\ refresh_request'.body.expires_in > 60)

\* C16: a failed refresh (soft, or a status other than 200) leaves the client
\* due, with the token it had; the refresh_token call after it finds the token
\* due and sends one refresh request again; and if refresh_token is called
\* again and again and the server from some point on answers every refresh
\* with 200, success true and an expires_in above 60, every failed refresh is
\* followed by a state in which the client is valid with the token of a later
\* answer installed.
C16_StaleIsNotSticky ==
    /\ [](FailedRefresh => Session = c.pre /\ now >= DueAt(Session))
    /\ [][(FailedRefresh /\ pc'[MainThread] = "r79") =>
            c'.t0 >= DueAt(c'.pre)]_vars
    /\ []((c.op = "refresh_token" /\ c.pre.token \in Tokens
             /\ c.t0 >= DueAt(c.pre) /\ pc[MainThread] # "r79") =>
            /\ Len(c.sent) = 1
            /\ c.sent[1].url = <<base_url, "/auth/refresh">>)
    /\ ([]<><<R78(MainThread)>>_vars /\ <>[][~BadRefreshAnswer]_vars) =>
            [](FailedRefresh => <>ValidAgain)

\* A refresh after a failed one (the token is the one both calls found) has
\* installed a new token, and the client is valid.
C16_Witness ==
    /\ ValidAgain
    /\ refresh_request.body.token # c.pre.token
    /\ c.pre.token \in Tokens
    /\ c.t0 > DueAt(c.pre)

-----------------------------------------------------------------------------
(* Properties of concurrent use *)

\* Every caller's refresh_token call has sent its refresh, got its answer and
\* returned.
BothRefreshed ==
    \A t \in Threads :
        /\ pc[t] = "idle"
        /\ call[t].op = "refresh_token"
        /\ call[t].outcome = "returned"
        /\ Len(call[t].got) = 1

\* Token, expiry and header are those of one caller's refresh answer.
FromOneAnswer == \E t \in Threads : InstalledFrom(Session, call[t].got[1])

\* Caller t's step puts a get_data request on the wire.
SendsGet(t) == pc[t] = "idle" /\ pc'[t] = "g105"

\* C18: with two refresh_token calls running at once and both answered with a
\* success, token, expiry and header are those of one and the same answer once
\* both calls have returned, and every get_data request sent meanwhile carries
\* "Bearer " followed by the value the token field has at that moment.
C18_ConcurrentRefreshAtomic ==
    /\ [](BothRefreshed => FromOneAnswer)
    /\ [][\A t \in Threads :
            SendsGet(t) => call'[t].sent[1].auth = <<"Bearer ", token>>]_vars

====
